---- MODULE Spec2Model ----
(***************************************************************************)
(* Model of scrape.py: the TeamRankings ATS-trends scraper that stores one *)
(* snapshot per (league, team, scrape_date) in Postgres.                   *)
(*                                                                         *)
(* Text is a sequence of one-character strings, so that str.strip() and    *)
(* get_text(strip=True) are computed, not assumed.  A Python dict is a     *)
(* sequence of <<key, value>> pairs with pairwise distinct keys, kept in   *)
(* insertion order.                                                        *)
(***************************************************************************)
EXTENDS Integers, Sequences, FiniteSets, TLC

\* ------------------------------------------------------------------ bounds
MaxClock == 2           \* last instant the clock can show
TicksPerDay == 2        \* instants per UTC calendar day
NumLeagues == 2         \* leading entries of LEAGUE_URLS that are processed
MaxCols == 3            \* header slots of a table given to the extractor
MaxKeys == 3            \* entries of a row mapping given to infer_team

\* ------------------------------------------------------------------- text
\* str.strip() / get_text(strip=True) remove leading and trailing whitespace.
IsSpace(c) == c = " "

RECURSIVE LStrip(_)
LStrip(s) ==
  IF s # <<>> /\ IsSpace(Head(s)) THEN LStrip(Tail(s)) ELSE s

RECURSIVE RStrip(_)
RStrip(s) ==
  IF s # <<>> /\ IsSpace(s[Len(s)]) THEN RStrip(SubSeq(s, 1, Len(s) - 1)) ELSE s

Strip(s) == RStrip(LStrip(s))

\* A cell is the sequence of its text nodes; get_text(strip=True) strips each
\* node, drops the empty ones and joins the rest with no separator.
RECURSIVE get_text_strip(_)
get_text_strip(cell) ==
  IF cell = <<>> THEN <<>> ELSE Strip(Head(cell)) \o get_text_strip(Tail(cell))

\* ------------------------------------------------------------------ dicts
DictKeys(d) == {d[i][1] : i \in DOMAIN d}

HasKey(d, k) == k \in DictKeys(d)

DictGet(d, k) == d[CHOOSE i \in DOMAIN d : d[i][1] = k][2]

\* d[k] = v: an existing key keeps its position and takes the new value.
DictSet(d, k, v) ==
  IF HasKey(d, k)
  THEN [i \in DOMAIN d |-> IF d[i][1] = k THEN <<k, v>> ELSE d[i]]
  ELSE Append(d, <<k, v>>)

Min(a, b) == IF a <= b THEN a ELSE b

\* dict(zip(ks, vs)): pairs up to the shorter length, inserted left to right.
RECURSIVE DictZip(_, _)
DictZip(ks, vs) ==
  LET n == Min(Len(ks), Len(vs)) IN
  IF n = 0 THEN <<>>
  ELSE DictSet(DictZip(SubSeq(ks, 1, n - 1), SubSeq(vs, 1, n - 1)), ks[n], vs[n])

\* ---------------------------------------------------------- extract_table
\* A soup is [table |-> BOOLEAN, rows |-> sequence of <tr>]; a <tr> is
\* [th |-> its <th> cells, td |-> its <td> cells].
NoTable == "No <table> found on the page."

HeaderLabels(tr) ==
  LET ths == [i \in DOMAIN tr.th |-> get_text_strip(tr.th[i])] IN
  IF ths # <<>> THEN ths ELSE [i \in DOMAIN tr.td |-> get_text_strip(tr.td[i])]

RowRecord(headers, tr) ==
  LET values == [i \in DOMAIN tr.td |-> get_text_strip(tr.td[i])] IN
  IF Len(values) # Len(headers)
  THEN LET n == Min(Len(values), Len(headers)) IN
       DictZip(SubSeq(headers, 1, n), SubSeq(values, 1, n))
  ELSE DictZip(headers, values)

RECURSIVE DataRows(_, _)
DataRows(headers, trs) ==
  IF trs = <<>> THEN <<>>
  ELSE IF Head(trs).td = <<>> THEN DataRows(headers, Tail(trs))
  ELSE <<RowRecord(headers, Head(trs))>> \o DataRows(headers, Tail(trs))

\* [raised |-> the RuntimeError of line 53, or "", data |-> the row mappings].
extract_table(soup) ==
  IF ~soup.table THEN [raised |-> NoTable, data |-> <<>>]
  ELSE IF soup.rows = <<>> THEN [raised |-> "", data |-> <<>>]
  ELSE [raised |-> "",
        data |-> DataRows(HeaderLabels(Head(soup.rows)), Tail(soup.rows))]

\* ------------------------------------------------------------- infer_team
Team == <<"T", "e", "a", "m">>
TEAM == <<"T", "E", "A", "M">>
team == <<"t", "e", "a", "m">>
UNKNOWN == <<"U", "N", "K", "N", "O", "W", "N">>

TeamKeys == <<Team, TEAM, team>>

\* The probe of infer_team: a key counts only when present with a truthy
\* (non-empty) value.
\* A variant of the probe that tests presence only.
ProbePresenceOnly(row, key) == HasKey(row, key)

Probe(row, key) == HasKey(row, key) /\ DictGet(row, key) # <<>>

infer_team(row) ==
  IF \E j \in DOMAIN TeamKeys : Probe(row, TeamKeys[j])
  THEN LET j == CHOOSE x \in DOMAIN TeamKeys :
                  /\ Probe(row, TeamKeys[x])
                  /\ \A y \in 1..(x - 1) : ~Probe(row, TeamKeys[y])
       IN Strip(DictGet(row, TeamKeys[j]))
  ELSE IF row # <<>> THEN Strip(row[1][2])
  ELSE UNKNOWN

\* -------------------------------------------------------- stable_row_hash
\* json.dumps(sort_keys=True) is a canonical form of the mapping that does
\* not depend on insertion order: the set of its items stands for it.  The
\* digest is kept symbolic and collision-free.
CanonicalJson(row) == {row[i] : i \in DOMAIN row}

stable_row_hash(row) == [sha256 |-> CanonicalJson(row)]

\* The JSONB bind parameter: jsonb stores the mapping without key order.
ToJsonb(row) == CanonicalJson(row)

\* ------------------------------------------------------------ the registry
LEAGUE_URLS ==
  << <<"nba", "https://www.teamrankings.com/nba/trends/ats_trends/">>,
     <<"nfl", "https://www.teamrankings.com/nfl/trends/ats_trends/">>,
     <<"ncb", "https://www.teamrankings.com/ncb/trends/ats_trends/">>,
     <<"ncf", "https://www.teamrankings.com/ncf/trends/ats_trends/">> >>

SOURCE_NAME == "teamrankings_ats_trends"

\* The leagues one invocation iterates, in registry order.
Leagues == SubSeq(LEAGUE_URLS, 1, Min(NumLeagues, Len(LEAGUE_URLS)))

\* Two operating-system processes, each running main() once; they may overlap
\* or run one after the other.
Procs == {"a", "b"}

\* ------------------------------------------------- the pages a fetch returns
Cell(s) == <<s>>
ATS == <<"A", "T", "S">>
LAL == <<"L">>
BOS == <<"B">>

HeadTr == [th |-> <<Cell(Team), Cell(ATS)>>, td |-> <<>>]
DataTr(t, v) == [th |-> <<>>, td |-> <<Cell(t), Cell(v)>>]

PageNoTable == [table |-> FALSE, rows |-> <<>>]
PageEmpty == [table |-> TRUE, rows |-> <<HeadTr>>]
PageLLB ==
  [table |-> TRUE,
   rows |-> <<HeadTr, DataTr(LAL, <<"1">>), DataTr(<<" ", "L", " ">>, <<"2">>),
              DataTr(BOS, <<"1">>)>>]
PageBL ==
  [table |-> TRUE, rows |-> <<HeadTr, DataTr(BOS, <<"2">>), DataTr(LAL, <<"3">>)>>]

Pages == {PageNoTable, PageEmpty, PageLLB, PageBL}

\* ------------------------------------------------------------------ state
VARIABLES
  scrape_runs,   \* committed rows of table scrape_runs, in insertion order
  ats_trends,    \* committed rows of table ats_trends, in insertion order
  run_id_seq,    \* last value of the bigserial sequence of scrape_runs.run_id
  clock,         \* the UTC clock
  pc,            \* per process: where main() stands; exit_0 / exit_1 once it ended
  scraped_at,    \* per process: the instant captured at line 166
  parsed,        \* per process: the rows extracted for each league so far
  row_i,         \* per process: index of the next row of the current league
  printed,       \* per process: the league_count printed for each league
  tx_runs,       \* per process: scrape_runs rows inserted, not yet committed
  tx_trends,     \* per process: Snapshots its upserts bound, not yet committed
  began,         \* per process: number of commits that preceded its begin
  commit_log,    \* the committed invocations, in commit order
  row_arg,       \* the mapping given to a call of infer_team
  team_out,      \* <<result>> once that call returned, <<>> before
  soup_arg,      \* the document given to a call of extract_table
  table_out      \* <<result>> once that call returned, <<>> before

main_vars ==
  <<scrape_runs, ats_trends, run_id_seq, clock, pc, scraped_at,
    parsed, row_i, printed, tx_runs, tx_trends, began, commit_log>>

call_vars == <<row_arg, team_out, soup_arg, table_out>>

vars == <<main_vars, call_vars>>

\* scrape_date: the generated column, the UTC calendar date of scraped_at.
scrape_date(t) == t \div TicksPerDay

\* The unique key of ats_trends.
Key(r) == <<r.league, r.team, scrape_date(r.scraped_at)>>

KeysOf(table) == {Key(table[i]) : i \in DOMAIN table}

\* Variants of the upsert statement that differ from it in one clause: no
\* update on conflict, no conflict clause, an update that leaves the payload,
\* an update that leaves run_id.
OnConflictDoNothing(table, new) ==
  IF Key(new) \in KeysOf(table) THEN table ELSE Append(table, new)

InsertNoConflictClause(table, new) == Append(table, new)

DoUpdateKeepsPayload(table, new) ==
  IF Key(new) \in KeysOf(table)
  THEN [i \in DOMAIN table |->
          IF Key(table[i]) = Key(new)
          THEN [table[i] EXCEPT !.run_id = new.run_id,
                                !.scraped_at = new.scraped_at]
          ELSE table[i]]
  ELSE Append(table, new)

DoUpdateKeepsRunId(table, new) ==
  IF Key(new) \in KeysOf(table)
  THEN [i \in DOMAIN table |->
          IF Key(table[i]) = Key(new)
          THEN [table[i] EXCEPT !.scraped_at = new.scraped_at,
                                !.row_json = new.row_json,
                                !.row_hash = new.row_hash]
          ELSE table[i]]
  ELSE Append(table, new)

\* insert ... on conflict (league, team, scrape_date) do update set run_id,
\* scraped_at, row_json, row_hash = excluded.*: the statement's effect on the
\* table as the transaction sees it.  The conflicting row is updated in place.
\* (The surrogate id of a row, which no statement reads, is left out: a row is
\* identified by its place in the table.)
InsertTrend(table, new) ==
  IF Key(new) \in KeysOf(table)
  THEN [i \in DOMAIN table |->
          IF Key(table[i]) = Key(new)
          THEN [table[i] EXCEPT !.run_id = new.run_id,
                                !.scraped_at = new.scraped_at,
                                !.row_json = new.row_json,
                                !.row_hash = new.row_hash]
          ELSE table[i]]
  ELSE Append(table, new)

\* The committed table after the statements of an open transaction: each
\* bound Snapshot in ws is applied in the order it was executed.
RECURSIVE ApplyWrites(_, _)
ApplyWrites(table, ws) ==
  IF ws = <<>> THEN table
  ELSE ApplyWrites(InsertTrend(table, Head(ws)), Tail(ws))

\* What the statements of process p read: committed rows plus its own writes.
View(p) == ApplyWrites(ats_trends, tx_trends[p])

InTx(p) == pc[p] \in {"league", "upsert", "commit"}

\* The league being processed: one entry of parsed per league entered.
league_i(p) == Len(parsed[p])
CurLeague(p) == Leagues[league_i(p)]
CurRows(p) == parsed[p][league_i(p)]

\* The row version another open transaction holds on a key blocks the
\* statement until that transaction ends (the unique index of line 130).
HeldBy(q, key) == key \in KeysOf(tx_trends[q])
Blocked(p, key) == \E q \in Procs \ {p} : HeldBy(q, key)

NextKey(p) ==
  <<CurLeague(p)[1], infer_team(CurRows(p)[row_i[p]]), scrape_date(scraped_at[p])>>

MainInit ==
  /\ scrape_runs = <<>>
  /\ ats_trends = <<>>
  /\ run_id_seq = 0
  /\ clock = 0
  /\ pc = [p \in Procs |-> "start"]
  /\ scraped_at = [p \in Procs |-> 0]
  /\ parsed = [p \in Procs |-> <<>>]
  /\ row_i = [p \in Procs |-> 1]
  /\ printed = [p \in Procs |-> <<>>]
  /\ tx_runs = [p \in Procs |-> <<>>]
  /\ tx_trends = [p \in Procs |-> <<>>]
  /\ began = [p \in Procs |-> 0]
  /\ commit_log = <<>>

NoCall ==
  /\ row_arg = <<>>
  /\ team_out = <<>>
  /\ soup_arg = PageNoTable
  /\ table_out = <<>>

Init == MainInit /\ NoCall

\* Leaving the with-block: the locals of the invocation are gone.
EndInvocation(p, how) ==
  /\ pc' = [pc EXCEPT ![p] = how]
  /\ parsed' = [parsed EXCEPT ![p] = <<>>]
  /\ row_i' = [row_i EXCEPT ![p] = 1]
  /\ printed' = [printed EXCEPT ![p] = <<>>]
  /\ tx_runs' = [tx_runs EXCEPT ![p] = <<>>]
  /\ tx_trends' = [tx_trends EXCEPT ![p] = <<>>]
  /\ scraped_at' = [scraped_at EXCEPT ![p] = 0]
  /\ began' = [began EXCEPT ![p] = 0]

\* An exception leaves the with-block: the transaction is rolled back.  The
\* sequences are not transactional and keep the values they handed out.
Rollback(p) ==
  /\ EndInvocation(p, "exit_1")
  /\ UNCHANGED <<scrape_runs, ats_trends, run_id_seq, clock, commit_log, call_vars>>

\* The instants the clock may show when it is read: time is counted from the
\* first read, and never runs backwards.
ClockReadings == IF \A q \in Procs : pc[q] = "start" THEN {clock} ELSE clock..MaxClock

\* main() up to the with-block: the clock is read once; the schema exists.
\* The two processes are named in the order they begin: "a" is the first.
Begin(p) ==
  /\ pc[p] = "start"
  /\ p = "b" => pc["a"] # "start"
  /\ \E t \in ClockReadings :
       /\ clock' = t
       /\ scraped_at' = [scraped_at EXCEPT ![p] = t]
  /\ pc' = [pc EXCEPT ![p] = "league"]
  /\ began' = [began EXCEPT ![p] = Len(commit_log)]
  /\ UNCHANGED <<scrape_runs, ats_trends, run_id_seq, parsed, row_i,
                 printed, tx_runs, tx_trends, commit_log, call_vars>>

\* The request fails (timeout, HTTP status), or the page holds no table.
FetchFails(p) ==
  /\ pc[p] = "league"
  /\ \/ \E soup \in Pages : extract_table(soup).raised # ""
     \/ \E err \in {"Timeout", "HTTPError"} : TRUE
  /\ Rollback(p)

\* League number n is finished: its count is added to the total and printed.
FinishLeague(p, n, count) ==
  /\ printed' = [printed EXCEPT ![p] = Append(@, count)]
  /\ row_i' = [row_i EXCEPT ![p] = 1]
  /\ pc' = [pc EXCEPT ![p] =
              IF n = Len(Leagues) THEN "commit" ELSE "league"]

\* A variant: the clock read again when the statement is executed.
ClockAtStatement(p) == clock

\* The timestamp bound to :scraped_at in both statements.
BoundScrapedAt(p) == scraped_at[p]

NewRun(p, lg) ==
  [run_id |-> run_id_seq + 1, source |-> SOURCE_NAME, league |-> lg[1],
   url |-> lg[2], scraped_at |-> BoundScrapedAt(p)]

\* A variant: the insert of a Run committed on its own.
RunAutocommitted(p, run) ==
  /\ scrape_runs' = Append(scrape_runs, run)
  /\ UNCHANGED tx_runs

\* Where the insert of a Run lands: in the open transaction.
RunInserted(p, run) ==
  /\ tx_runs' = [tx_runs EXCEPT ![p] = Append(@, run)]
  /\ UNCHANGED scrape_runs

\* A variant: no Run for a league without rows.
RecordsRunOnlyWithRows(rows) == rows # <<>>

\* Whether a league's Run is recorded, given the rows extracted for it:
\* always, the insert of line 200 is outside the row loop.
RecordsRun(rows) == TRUE

\* The head of one iteration of the league loop (lines 192-205): the page is
\* fetched and parsed (no store access), the Run is inserted, and the row loop
\* is entered; with no rows the league is finished at once.
RecordRun(p) ==
  /\ pc[p] = "league"
  /\ \E soup \in Pages :
       LET rows == extract_table(soup).data
           lg == Leagues[Len(parsed[p]) + 1]
       IN /\ extract_table(soup).raised = ""
          /\ parsed' = [parsed EXCEPT ![p] = Append(@, rows)]
          /\ IF RecordsRun(rows)
             THEN /\ run_id_seq' = run_id_seq + 1
                  /\ RunInserted(p, NewRun(p, lg))
             ELSE UNCHANGED <<run_id_seq, tx_runs, scrape_runs>>
          /\ IF rows = <<>>
             THEN FinishLeague(p, Len(parsed[p]) + 1, 0)
             ELSE /\ pc' = [pc EXCEPT ![p] = "upsert"]
                  /\ UNCHANGED <<printed, row_i>>
  /\ UNCHANGED <<ats_trends, clock, scraped_at, tx_trends, began, commit_log,
                 call_vars>>

\* The Snapshot one iteration of the row loop binds to the statement.
NewTrend(p) ==
  LET row == CurRows(p)[row_i[p]] IN
  [run_id |-> tx_runs[p][Len(tx_runs[p])].run_id,
   scraped_at |-> BoundScrapedAt(p), league |-> CurLeague(p)[1],
   team |-> infer_team(row), row_json |-> ToJsonb(row),
   row_hash |-> stable_row_hash(row)]

\* One iteration of the row loop (lines 206-221).
UpsertRow(p) ==
  /\ pc[p] = "upsert"
  /\ ~Blocked(p, NextKey(p))
  /\ tx_trends' = [tx_trends EXCEPT ![p] = Append(@, NewTrend(p))]
  /\ IF row_i[p] = Len(CurRows(p))
     THEN FinishLeague(p, Len(parsed[p]), row_i[p])
     ELSE /\ row_i' = [row_i EXCEPT ![p] = @ + 1]
          /\ UNCHANGED <<pc, printed>>
  /\ UNCHANGED <<scrape_runs, ats_trends, run_id_seq, clock, scraped_at,
                 parsed, tx_runs, began, commit_log, call_vars>>

\* Two transactions wait for each other's row: the store's deadlock detector
\* fails the statement of one of them.
DeadlockAbort(p) ==
  /\ pc[p] = "upsert"
  /\ \E q \in Procs \ {p} :
       /\ pc[q] = "upsert"
       /\ HeldBy(q, NextKey(p))
       /\ HeldBy(p, NextKey(q))
  /\ Rollback(p)

\* A statement or the commit fails (StoreError, connection lost).
StoreFails(p) ==
  /\ pc[p] \in {"league", "upsert", "commit"}
  /\ Rollback(p)

LogEntry(p) ==
  [proc |-> p, began |-> began[p], scraped_at |-> scraped_at[p],
   runs |-> tx_runs[p], writes |-> tx_trends[p], parsed |-> parsed[p],
   printed |-> printed[p]]

\* The with-block ends normally: everything the transaction wrote is committed.
Commit(p) ==
  /\ pc[p] = "commit"
  /\ scrape_runs' = scrape_runs \o tx_runs[p]
  /\ ats_trends' = View(p)
  /\ commit_log' = Append(commit_log, LogEntry(p))
  /\ EndInvocation(p, "exit_0")
  /\ UNCHANGED <<run_id_seq, clock, call_vars>>

Next ==
  \E p \in Procs :
    \/ Begin(p)
    \/ FetchFails(p)
    \/ RecordRun(p)
    \/ UpsertRow(p)
    \/ DeadlockAbort(p)
    \/ StoreFails(p)
    \/ Commit(p)

Spec == Init /\ [][Next]_vars

\* ------------------------------------------------- infer_team, called alone
Texts == {<<>>, <<" ">>, <<"L">>, <<" ", "L", " ">>, <<"1">>}
RANK == <<"R", "k">>
RowKeys == {Team, TEAM, team, RANK}

\* Every mapping of at most MaxKeys entries over RowKeys, in every insertion
\* order, with values in Texts.
RowArgs ==
  UNION {{r \in [1..n -> RowKeys \X Texts] :
            \A i, j \in 1..n : r[i][1] = r[j][1] => i = j} : n \in 0..MaxKeys}

InitTeam ==
  /\ MainInit
  /\ row_arg \in RowArgs
  /\ team_out = <<>>
  /\ soup_arg = PageNoTable
  /\ table_out = <<>>

CallInferTeam ==
  /\ team_out = <<>>
  /\ team_out' = <<infer_team(row_arg)>>
  /\ UNCHANGED <<main_vars, row_arg, soup_arg, table_out>>

NextTeam == CallInferTeam

SpecTeam == InitTeam /\ [][NextTeam]_vars

\* ---------------------------------------------- extract_table, called alone
HeaderTexts == {<<>>, <<" ">>, Team, ATS}
CellValues == <<<<"1">>, <<"2">>, <<"3">>, <<"4">>, <<"5">>>>

\* A table of one header row and one data row: up to MaxCols header cells,
\* marked up as <th> or as <td>, and up to MaxCols data cells.
HeaderRows ==
  UNION {{[th |-> IF asTh THEN [i \in DOMAIN h |-> Cell(h[i])] ELSE <<>>,
           td |-> IF asTh THEN <<>> ELSE [i \in DOMAIN h |-> Cell(h[i])]] :
            h \in [1..n -> HeaderTexts], asTh \in BOOLEAN} : n \in 0..MaxCols}

DataRowOf(n) == [th |-> <<>>, td |-> [i \in 1..n |-> Cell(CellValues[i])]]

SoupArgs ==
  {PageNoTable, [table |-> TRUE, rows |-> <<>>]}
  \cup {[table |-> TRUE, rows |-> <<h, DataRowOf(n)>>] :
          h \in HeaderRows, n \in 0..MaxCols}

InitExtract ==
  /\ MainInit
  /\ row_arg = <<>>
  /\ team_out = <<>>
  /\ soup_arg \in SoupArgs
  /\ table_out = <<>>

CallExtractTable ==
  /\ table_out = <<>>
  /\ table_out' = <<extract_table(soup_arg)>>
  /\ UNCHANGED <<main_vars, row_arg, team_out, soup_arg>>

NextExtract == CallExtractTable

SpecExtract == InitExtract /\ [][NextExtract]_vars

\* ================================================================ claims
RowsWithKey(table, k) == {i \in DOMAIN table : Key(table[i]) = k}

UniqueKeys(table) ==
  \A i, j \in DOMAIN table : Key(table[i]) = Key(table[j]) => i = j

\* The last Snapshot a list of bound Snapshots holds for key k.
LastWrite(ws, k) ==
  ws[CHOOSE i \in RowsWithKey(ws, k) : \A j \in RowsWithKey(ws, k) : j <= i]

SameWrite(r, w) ==
  /\ r.run_id = w.run_id
  /\ r.scraped_at = w.scraped_at
  /\ r.row_json = w.row_json
  /\ r.row_hash = w.row_hash

CommitStep(p) == pc[p] = "commit" /\ pc'[p] = "exit_0"

UpsertStep(p) ==
  pc[p] = "upsert" /\ Len(tx_trends'[p]) = Len(tx_trends[p]) + 1

SharedKeys(i, j) ==
  KeysOf(commit_log[i].writes) \cap KeysOf(commit_log[j].writes)

\* Invocation j was still running when invocation i committed before it.
Overlap(i, j) == i < j /\ commit_log[j].began < i

\* C1: the committed table, and the table as every open transaction sees it,
\* holds at most one Snapshot per (league, team, scrape_date).
C1_OneSnapshotPerKey ==
  /\ UniqueKeys(ats_trends)
  /\ \A p \in Procs : UniqueKeys(View(p))

\* Two invocations committed, both wrote one key, and one row holds it.
C1_Witness ==
  /\ Len(commit_log) = 2
  /\ \E k \in SharedKeys(1, 2) : Cardinality(RowsWithKey(ats_trends, k)) = 1

\* C2: an upsert on a key the transaction already sees leaves one row for the
\* key, carrying the run_id, scraped_at, row_json and row_hash just bound and
\* adding no row; and at commit the committed row of every key the
\* transaction wrote carries its last write for that key.
C2_LatestWriteWins ==
  [][\A p \in Procs :
       /\ UpsertStep(p) =>
            \A before \in {View(p)} :
              \A after \in {ApplyWrites(ats_trends', tx_trends'[p])} :
                LET row == CurRows(p)[row_i[p]]
                    k == NextKey(p)
                IN k \in KeysOf(before) =>
                     /\ Len(after) = Len(before)
                     /\ Cardinality(RowsWithKey(after, k)) = 1
                     /\ \A i \in RowsWithKey(after, k) :
                          /\ after[i].run_id = tx_runs[p][Len(tx_runs[p])].run_id
                          /\ after[i].scraped_at = scraped_at[p]
                          /\ after[i].row_json = ToJsonb(row)
                          /\ after[i].row_hash = stable_row_hash(row)
       /\ CommitStep(p) =>
            \A k \in KeysOf(tx_trends[p]) :
              \A i \in RowsWithKey(ats_trends', k) :
                SameWrite(ats_trends'[i], LastWrite(tx_trends[p], k))
    ]_vars

\* The second of two invocations run one after the other overwrote, on the
\* same day and at a later instant, a key of the first with another payload.
C2_Witness ==
  /\ Len(commit_log) = 2
  /\ ~Overlap(1, 2)
  /\ commit_log[1].scraped_at # commit_log[2].scraped_at
  /\ \E k \in SharedKeys(1, 2) :
       LET w1 == LastWrite(commit_log[1].writes, k)
           w2 == LastWrite(commit_log[2].writes, k)
       IN /\ w1.row_json # w2.row_json
          /\ \A i \in RowsWithKey(ats_trends, k) :
               SameWrite(ats_trends[i], w2) /\ ~SameWrite(ats_trends[i], w1)

\* C3: only a commit changes the committed tables, so an invocation that
\* fails leaves them as they were; and a commit makes every Run of every
\* league and the last write of every key visible in one step.
C3_AllOrNothing ==
  [][/\ (\A p \in Procs : ~CommitStep(p)) =>
          /\ scrape_runs' = scrape_runs
          /\ ats_trends' = ats_trends
     /\ \A p \in Procs : CommitStep(p) =>
          /\ Len(tx_runs[p]) = Len(Leagues)
          /\ \A i \in DOMAIN tx_runs[p] :
               \E j \in DOMAIN scrape_runs' : scrape_runs'[j] = tx_runs[p][i]
          /\ \A k \in KeysOf(tx_trends[p]) :
               \E j \in DOMAIN ats_trends' :
                 /\ Key(ats_trends'[j]) = k
                 /\ SameWrite(ats_trends'[j], LastWrite(tx_trends[p], k))
    ]_vars

\* One invocation failed after it had inserted a Run, the other committed:
\* the table holds the Runs of the committed one only.
C3_Witness ==
  /\ \E p, q \in Procs : pc[p] = "exit_1" /\ pc[q] = "exit_0"
  /\ run_id_seq > Len(scrape_runs)
  /\ Len(scrape_runs) = Len(Leagues)
  /\ ats_trends # <<>>

OldRunIds == {scrape_runs[i].run_id : i \in DOMAIN scrape_runs}

\* C4: a commit appends exactly one Run per league of the registry, in
\* registry order, each with a run_id no earlier Run has and no other new
\* Run shares, and leaves every earlier Run as it was.
C4_OneFreshRunPerLeague ==
  [][\A p \in Procs : CommitStep(p) =>
       LET n == Len(scrape_runs)
           m == Len(scrape_runs')
       IN /\ m = n + Len(Leagues)
          /\ SubSeq(scrape_runs', 1, n) = scrape_runs
          /\ \A i \in 1..Len(Leagues) :
               /\ scrape_runs'[n + i].league = Leagues[i][1]
               /\ scrape_runs'[n + i].url = Leagues[i][2]
               /\ scrape_runs'[n + i].source = SOURCE_NAME
               /\ scrape_runs'[n + i].run_id \notin OldRunIds
               /\ \A j \in 1..Len(Leagues) :
                    scrape_runs'[n + i].run_id = scrape_runs'[n + j].run_id => i = j
    ]_vars

\* Two committed invocations recorded a Run with the same source, league, url
\* and instant, and a league with zero rows has its Run.
C4_Witness ==
  /\ Len(commit_log) = 2
  /\ \E i, j \in DOMAIN scrape_runs :
       /\ i # j
       /\ scrape_runs[i].run_id # scrape_runs[j].run_id
       /\ [scrape_runs[i] EXCEPT !.run_id = 0] = [scrape_runs[j] EXCEPT !.run_id = 0]
  /\ \E e \in DOMAIN commit_log : \E l \in DOMAIN Leagues :
       /\ commit_log[e].printed[l] = 0
       /\ commit_log[e].parsed[l] = <<>>
       /\ \E i \in DOMAIN scrape_runs : scrape_runs[i] = commit_log[e].runs[l]

\* C5: when two invocations overlapped and both committed, every key both
\* wrote has exactly one committed row, carrying the last write of the one
\* that committed last.
C5_LastCommitWins ==
  \A i, j \in DOMAIN commit_log :
    (Overlap(i, j) /\ j = Len(commit_log)) =>
      \A k \in SharedKeys(i, j) :
        /\ Cardinality(RowsWithKey(ats_trends, k)) = 1
        /\ \A r \in RowsWithKey(ats_trends, k) :
             SameWrite(ats_trends[r], LastWrite(commit_log[j].writes, k))

\* Two overlapping invocations wrote one key with different payloads.
C5_Witness ==
  /\ Len(commit_log) = 2
  /\ Overlap(1, 2)
  /\ \E k \in SharedKeys(1, 2) :
       LastWrite(commit_log[1].writes, k).row_json
         # LastWrite(commit_log[2].writes, k).row_json

SeqRange(q) == {q[i] : i \in DOMAIN q}

\* C6: every Run and every Snapshot an invocation has written, in its open
\* transaction and once committed, carries the instant it captured at start.
C6_OneScrapedAt ==
  /\ \A p \in Procs : InTx(p) =>
       /\ \A r \in SeqRange(tx_runs[p]) : r.scraped_at = scraped_at[p]
       /\ \A w \in SeqRange(tx_trends[p]) : w.scraped_at = scraped_at[p]
  /\ \A e \in SeqRange(commit_log) :
       /\ \A r \in SeqRange(e.runs) : r.scraped_at = e.scraped_at
       /\ \A w \in SeqRange(e.writes) : w.scraped_at = e.scraped_at

\* An invocation has written the Runs of two leagues and Snapshots of both
\* while the clock has moved past the instant it captured.
C6_Witness ==
  \E p \in Procs :
    /\ pc[p] = "commit"
    /\ clock # scraped_at[p]
    /\ Len(tx_runs[p]) >= 2
    /\ Cardinality({w.league : w \in SeqRange(tx_trends[p])}) >= 2

RunsWithId(id) == {i \in DOMAIN scrape_runs : scrape_runs[i].run_id = id}

\* C7: every committed Snapshot names exactly one committed Run, which has
\* the Snapshot's league and scraped_at.
C7_SnapshotHasItsRun ==
  \A t \in SeqRange(ats_trends) :
    /\ Cardinality(RunsWithId(t.run_id)) = 1
    /\ \A i \in RunsWithId(t.run_id) :
         /\ scrape_runs[i].league = t.league
         /\ scrape_runs[i].scraped_at = t.scraped_at

\* A same-day overwrite moved every Snapshot of an older Run, which had
\* some, to a newer Run.
C7_Witness ==
  \E l \in DOMAIN Leagues :
    /\ Len(commit_log) = 2
    /\ commit_log[1].printed[l] > 0
    /\ commit_log[1].runs[l] \in SeqRange(scrape_runs)
    /\ \A t \in SeqRange(ats_trends) : t.run_id # commit_log[1].runs[l].run_id
    /\ \E t \in SeqRange(ats_trends) : t.run_id = commit_log[2].runs[l].run_id

\* The rows of a list that resolve to team t.
RowsOfTeam(rows, t) == {i \in DOMAIN rows : infer_team(rows[i]) = t}

\* C10: right after a commit, the Run of each league owns one Snapshot per
\* distinct resolved team of the rows extracted for the league, the one of
\* the last such row in document order, while the printed count is the
\* number of rows.
C10_OwnedIsDistinctTeams ==
  [][\A p \in Procs : CommitStep(p) =>
       \A l \in DOMAIN Leagues :
         LET rows == parsed[p][l]
             teams == {infer_team(rows[i]) : i \in DOMAIN rows}
             owned == {i \in DOMAIN ats_trends' :
                         ats_trends'[i].run_id = tx_runs[p][l].run_id}
         IN /\ Cardinality(owned) = Cardinality(teams)
            /\ printed[p][l] = Len(rows)
            /\ \A t \in teams :
                 \E i \in owned :
                   /\ ats_trends'[i].team = t
                   /\ ats_trends'[i].row_json =
                        ToJsonb(rows[CHOOSE x \in RowsOfTeam(rows, t) :
                                       \A y \in RowsOfTeam(rows, t) : y <= x])
    ]_vars

\* A committed invocation printed more rows for a league than its Run owns.
C10_Witness ==
  /\ Len(commit_log) = 1
  /\ \E l \in DOMAIN Leagues :
       commit_log[1].printed[l] >
         Cardinality({i \in DOMAIN ats_trends :
                        ats_trends[i].run_id = commit_log[1].runs[l].run_id})

PresentTeamKeys(row) == {j \in DOMAIN TeamKeys : HasKey(row, TeamKeys[j])}

\* C8 as claimed: with "Team", "TEAM" or "team" present the result is the
\* trimmed value of such a key, and "UNKNOWN" only comes from the empty
\* mapping.
C8_AnyPresentTeamKey ==
  team_out # <<>> =>
    /\ PresentTeamKeys(row_arg) # {} =>
         \E j \in PresentTeamKeys(row_arg) :
           team_out[1] = Strip(DictGet(row_arg, TeamKeys[j]))
    /\ team_out[1] = UNKNOWN => row_arg = <<>>

NonEmptyTeamKeys(row) ==
  {j \in PresentTeamKeys(row) : DictGet(row, TeamKeys[j]) # <<>>}

\* C8 amended: the result is the trimmed value of the first of "Team",
\* "TEAM", "team" that is present with a non-empty value; without such a key
\* it is the trimmed first value of a non-empty mapping, and "UNKNOWN" for
\* the empty mapping.
C8_FirstNonEmptyTeamKey ==
  team_out # <<>> =>
    /\ \A j \in NonEmptyTeamKeys(row_arg) :
         (\A i \in NonEmptyTeamKeys(row_arg) : j <= i) =>
           team_out[1] = Strip(DictGet(row_arg, TeamKeys[j]))
    /\ (NonEmptyTeamKeys(row_arg) = {} /\ row_arg # <<>>) =>
         team_out[1] = Strip(Head(row_arg)[2])
    /\ row_arg = <<>> => team_out[1] = UNKNOWN

\* A mapping whose "Team" value is empty resolved to its first value.
C8_Witness ==
  /\ team_out = << <<"1">> >>
  /\ Len(row_arg) = 2
  /\ row_arg[1] = <<RANK, <<"1">>>>
  /\ row_arg[2] = <<Team, <<>>>>

\* C9: every produced mapping has non-empty keys, and a data row with as
\* many cells as there are header slots yields one entry per header slot.
C9_PlaceholderKeys ==
  (table_out # <<>> /\ soup_arg.table /\ Len(soup_arg.rows) = 2) =>
    LET slots == Len(HeaderLabels(soup_arg.rows[1]))
        cells == Len(soup_arg.rows[2].td)
    IN \A rec \in SeqRange(table_out[1].data) :
         /\ \A i \in DOMAIN rec : rec[i][1] # <<>>
         /\ \A i, j \in DOMAIN rec : rec[i][1] = rec[j][1] => i = j
         /\ cells = slots => Len(rec) = slots

====
